---- MODULE Spec2Model ----
(***************************************************************************)
(* A model of undrp's sequential PDF writer (src/undrp/pdf.py, class       *)
(* PdfWriter).                                                             *)
(*                                                                         *)
(* The sink is the sequence of byte strings handed to out.write, one       *)
(* element per call; a byte string is a TLA+ string and its length is Len. *)
(* A method is an operator from the writer's state (the record "self", the *)
(* object's fields and its sink) to the state it leaves.  A raised         *)
(* exception is the field err; it makes every later step of the same call  *)
(* a no-op (the code has no try/finally, so nothing runs after a raise).   *)
(* A value a method returns or a scope yields is left in the field ret.    *)
(* A context manager is the pair of its code before the yield (_enter) and *)
(* after it (_exit).                                                       *)
(*                                                                         *)
(* Statements that follow one another are written as a pipeline of         *)
(* singleton sets, P2 == {g(s) : s \in P1}: s is the state the statements  *)
(* before have left, computed once.                                        *)
(***************************************************************************)
EXTENDS Integers, Sequences, FiniteSets, TLC

VARIABLES out, owned, _id_stream, _page_ids, _page_tree_root_id, _pos, _xrefs,
          sink, sink_closed, stack, calls

vars == <<out, owned, _id_stream, _page_ids, _page_tree_root_id, _pos, _xrefs,
          sink, sink_closed, stack, calls>>

\* ------------------------------------------------------------------ bounds

\* The number of calls of the public interface in one run.
MaxOps == 3

\* ------------------------------------------------------------ Python values

\* Python's None where an object id is expected (ids are positive).
None == 0

\* self.out: the sink object, or None once dropped (or never given).
OutValues == {"sink", "None"}

Raised(self) == self.err # "none"

\* The only element of a singleton set: the state a pipeline leaves.
The(S) == CHOOSE r \in S : TRUE

\* ----------------------------------------------------------------- helpers

\* as_ascii of an int: str(obj).encode("ascii"), the decimal digits.
\* (as_ascii of bytes is the bytes themselves; byte strings are passed as is.)
as_ascii(obj) == ToString(obj)

\* The total length of bss[lo..hi].
RECURSIVE TotalLen(_, _, _)
TotalLen(bss, lo, hi) ==
    IF lo > hi THEN 0
    ELSE IF lo = hi THEN Len(bss[lo])
    ELSE LET mid == (lo + hi) \div 2
         IN  TotalLen(bss, lo, mid) + TotalLen(bss, mid + 1, hi)

\* A mutation of _write: no test of self.out.
MutWriteUnchecked(self, bs) ==
    The({ IF Raised(s) THEN s
          ELSE [s EXCEPT !.sink = Append(@, bs), !._pos = @ + Len(bs)] : s \in {self} })

\* A mutation of _write: the counter is advanced before the sink is written to.
MutWriteCountsFirst(self, bs) ==
    The({ IF Raised(s) THEN s
          ELSE IF s.out = "None" THEN [s EXCEPT !.err = "closed"]
          ELSE IF s.sink_room = 0 THEN [s EXCEPT !._pos = @ + Len(bs), !.err = "io"]
          ELSE [s EXCEPT !.sink = Append(@, bs), !._pos = @ + Len(bs),
                         !.sink_room = IF @ > 0 THEN @ - 1 ELSE @] : s \in {self} })

\* self.out.write(bs) raises once the sink has no room left (sink_room = 0; a negative
\* sink_room is a sink that takes everything); the statement after it does not run.
_write(self, bs) ==
    The({ IF Raised(s) THEN s
          ELSE IF s.out = "None" THEN [s EXCEPT !.err = "closed"]
          ELSE IF s.sink_room = 0 THEN [s EXCEPT !.err = "io"]
          ELSE [s EXCEPT !.sink = Append(@, bs), !._pos = @ + Len(bs),
                         !.sink_room = IF @ > 0 THEN @ - 1 ELSE @] : s \in {self} })

\* Consecutive self._write(...) statements, each as _write.
RECURSIVE _write_each(_, _)
_write_each(self, bss) ==
    IF bss = <<>> THEN self
    ELSE The({ _write_each(s, Tail(bss)) : s \in {_write(self, Head(bss))} })

\* A mutation of _write_header: no test of the byte counter.
MutHeaderAlways(self) == _write(self, "%PDF-1.7\n")

_write_header(self) ==
    The({ IF Raised(s) \/ s._pos # 0 THEN s ELSE _write(s, "%PDF-1.7\n") : s \in {self} })

\* A mutation of next_object_id: the counter is advanced before it is read.
MutIdAfterAdvance(self) ==
    The({ IF Raised(s) THEN s
          ELSE [s EXCEPT !.ret = s._id_stream + 1, !._id_stream = @ + 1] : s \in {self} })

\* A mutation of next_object_id: the counter is read and not advanced.
MutIdNotAdvanced(self) ==
    The({ IF Raised(s) THEN s ELSE [s EXCEPT !.ret = s._id_stream] : s \in {self} })

\* next(self._id_stream); the value returned is left in ret.
next_object_id(self) ==
    The({ IF Raised(s) THEN s
          ELSE [s EXCEPT !.ret = s._id_stream, !._id_stream = @ + 1] : s \in {self} })

_write_ref(self, id) == _write_each(self, <<as_ascii(id), " 0 R">>)

\* ------------------------------------------------------- module constants

CONTENT_STREAM_TEMPLATE(width, height) ==
    "q\n" \o as_ascii(width) \o " 0 0 " \o as_ascii(height) \o " 0 0 cm\n/Img Do\nQ"

FORMAT2FILTER == ("JPEG" :> "/DCTDecode")

MODE2COLOR_SPACE == ("L" :> "/DeviceGray") @@ ("RGB" :> "/DeviceRGB")

\* The resources fragment write_image_page hands to write_page.
ResourcesFor(image_id) == "<< /XObject << /Img " \o as_ascii(image_id) \o " 0 R >> >>"

\* ------------------------------------------------------ structural scopes

\* start_array: "first" is the scope's own state, kept by whoever holds the scope.
start_array_enter(self) == _write(_write_header(self), "[")

start_array_exit(self) == _write(self, "]")

start_array_element_enter(self, first) ==
    IF first THEN self ELSE _write(self, " ")

start_dict_enter(self) == _write(_write_header(self), "<<\n")

start_dict_exit(self) == _write(self, ">>\n")

start_dict_entry_enter(self, key) == _write_each(self, <<"/", key, " ">>)

start_dict_entry_exit(self) == _write(self, "\n")

\* A mutation of self._xrefs[id] = self._pos: the key is the allocator's next id.
MutRecordUnderNextId(self) ==
    The({ IF Raised(s) THEN s
          ELSE [s EXCEPT !._xrefs = (s._id_stream :> s._pos) @@ @] : s \in {self} })

\* self._xrefs[id] = self._pos, for the id left in ret
RecordOffset(self) ==
    The({ IF Raised(s) THEN s
          ELSE [s EXCEPT !._xrefs = (s.ret :> s._pos) @@ @] : s \in {self} })

\* if id is None: id = self.next_object_id()
TakeId(self, id) ==
    The({ IF Raised(s) THEN s
          ELSE IF id = None THEN next_object_id(s)
          ELSE [s EXCEPT !.ret = id] : s \in {self} })

\* A mutation of start_object's entry: the offset is recorded after the id is written.
MutXrefAfterId(self, id) ==
    LET P1 == {TakeId(_write_header(self), id)}
        P2 == {_write(s, as_ascii(s.ret)) : s \in P1}
        P3 == {_write(RecordOffset(s), " 0 obj\n") : s \in P2}
    IN  The(P3)

\* start_object up to its yield; the id yielded is left in ret.
start_object_enter(self, id) ==
    LET P1 == {RecordOffset(TakeId(_write_header(self), id))}
        P2 == {_write_each(s, <<as_ascii(s.ret), " 0 obj\n">>) : s \in P1}
    IN  The(P2)

\* A mutation of start_object's exit: the closing token is forgotten.
MutObjectExitNothing(self) == self

start_object_exit(self) == _write(self, "endobj\n")

start_stream_enter(self) == _write(_write_header(self), "stream\n")

start_stream_exit(self) == _write(self, "\nendstream\n")

\* with start_dict_entry(key): the statements writing bss.
DictEntry(self, key, bss) ==
    start_dict_entry_exit(_write_each(start_dict_entry_enter(self, key), bss))

\* with start_array_element(): self._write(as_ascii(x)), for each x of xs in turn.
RECURSIVE ArrayOfNumbers(_, _, _)
ArrayOfNumbers(self, xs, first) ==
    IF xs = <<>> THEN self
    ELSE The({ ArrayOfNumbers(s, Tail(xs), FALSE) :
               s \in {_write(start_array_element_enter(self, first), as_ascii(Head(xs)))} })

\* with start_array_element(): self._write_ref(id), for each id of ids in turn.
RECURSIVE ArrayOfRefs(_, _, _)
ArrayOfRefs(self, ids, first) ==
    IF ids = <<>> THEN self
    ELSE The({ ArrayOfRefs(s, Tail(ids), FALSE) :
               s \in {_write_ref(start_array_element_enter(self, first), Head(ids))} })

\* ------------------------------------------------------------------ pages

\* contents_id of write_page: None, one id, or an iterable of ids.
NoContents == [iter |-> FALSE, ids |-> <<>>]
OneContents(id) == [iter |-> FALSE, ids |-> <<id>>]
ManyContents(ids) == [iter |-> TRUE, ids |-> ids]

\* The "Contents" entry of a page dictionary.
PageContents(self, contents_id) ==
    IF contents_id = NoContents THEN self
    ELSE LET P1 == {start_dict_entry_enter(self, "Contents")}
             P2 == {IF contents_id.iter
                    THEN start_array_exit(ArrayOfRefs(start_array_enter(s), contents_id.ids, TRUE))
                    ELSE _write_ref(s, contents_id.ids[1]) : s \in P1}
             P3 == {start_dict_entry_exit(s) : s \in P2}
         IN  The(P3)

\* The "MediaBox" entry of a page dictionary (media_box: None as <<>>, or 4 numbers).
PageMediaBox(self, media_box) ==
    IF media_box = <<>> THEN self
    ELSE LET P1 == {start_array_enter(start_dict_entry_enter(self, "MediaBox"))}
             P2 == {start_array_exit(ArrayOfNumbers(s, media_box, TRUE)) : s \in P1}
             P3 == {start_dict_entry_exit(s) : s \in P2}
         IN  The(P3)

\* The "Resources" entry of a page dictionary (resources: None as "", or a fragment).
PageResources(self, resources) ==
    IF resources = "" THEN self ELSE DictEntry(self, "Resources", <<resources>>)

\* A mutation of the reservation of the tree root: a new id on every call.
MutRootEveryCall(self) ==
    The({ IF Raised(s) THEN s
          ELSE The({ [a EXCEPT !._page_tree_root_id = a.ret] : a \in {next_object_id(s)} })
          : s \in {self} })

\* parent_id = self._page_tree_root_id = self._page_tree_root_id or self.next_object_id()
ReserveOrGetRoot(self) ==
    The({ IF Raised(s) \/ s._page_tree_root_id # None THEN s
          ELSE The({ [a EXCEPT !._page_tree_root_id = a.ret] : a \in {next_object_id(s)} })
          : s \in {self} })

\* A mutation of the append to the page list: the newest page goes first.
MutPrependPage(self) ==
    The({ IF Raised(s) THEN s ELSE [s EXCEPT !._page_ids = <<s.ret>> \o @] : s \in {self} })

\* self._page_ids.append(id), for the id start_object has yielded
AppendPage(self) ==
    The({ IF Raised(s) THEN s ELSE [s EXCEPT !._page_ids = Append(@, s.ret)] : s \in {self} })

\* return id: the local "id" is what start_object yielded (left in ret), unless
\* "for id in contents_id" has rebound it
ReturnId(self, contents_id) ==
    The({ IF Raised(s) \/ ~contents_id.iter \/ contents_id.ids = <<>> THEN s
          ELSE [s EXCEPT !.ret = contents_id.ids[Len(contents_id.ids)]] : s \in {self} })

write_page(self, id, contents_id, media_box, parent_id, resources) ==
    LET P1 == {_write_header(self)}
        P2 == {IF parent_id = None THEN ReserveOrGetRoot(s) ELSE s : s \in P1}
        P3 == {AppendPage(start_object_enter(s, id)) : s \in P2}
        P4 == {DictEntry(start_dict_enter(s), "Type", <<"/Page">>) : s \in P3}
        P5 == {start_dict_entry_exit(_write_ref(
                   start_dict_entry_enter(s, "Parent"),
                   IF parent_id = None THEN s._page_tree_root_id ELSE parent_id)) : s \in P4}
        P6 == {PageResources(s, resources) : s \in P5}
        P7 == {PageMediaBox(s, media_box) : s \in P6}
        P8 == {PageContents(s, contents_id) : s \in P7}
        P9 == {start_object_exit(start_dict_exit(s)) : s \in P8}
        P10 == {ReturnId(s, contents_id) : s \in P9}
    IN  The(P10)

\* image_obj = Image.open(buf); MODE2COLOR_SPACE[image_obj.mode];
\* FORMAT2FILTER[image_obj.format]: a KeyError for a mode or format that is no key.
Recognized(image) ==
    image.mode \in DOMAIN MODE2COLOR_SPACE /\ image.format \in DOMAIN FORMAT2FILTER

\* A mutation of the lookups: they come after the image object's id is allocated.
MutLookUpAfterId(self, image) ==
    The({ IF Raised(s) \/ Recognized(image) THEN s
          ELSE [s EXCEPT !._id_stream = @ + 1, !.err = "unsupported"] : s \in {self} })

\* A mutation of the lookups: they come before the header is written, so a failed
\* header write does not pre-empt them.
MutLookUpFirst(self, image) ==
    The({ IF Recognized(image) THEN s
          ELSE [s EXCEPT !.err = "unsupported"] : s \in {self} })

LookUp(self, image) ==
    The({ IF Raised(s) \/ Recognized(image) THEN s
          ELSE [s EXCEPT !.err = "unsupported"] : s \in {self} })

\* A mutation of the image's Length entry: the pixel count, not the byte count.
MutImageLengthPixels(contents) == contents.size[1] * contents.size[2]

\* len(contents_bytes), the value of the image-resource object's Length entry
ImageLength(contents) == Len(contents.bytes)

\* The image-resource object of write_image_page; the id yielded is left in ret.
ImageObject(self, contents, image_id) ==
    LET width == contents.size[1]
        height == contents.size[2]
        P1 == {start_dict_enter(start_object_enter(self, image_id))}
        P2 == {DictEntry(s, "Type", <<"/XObject">>) : s \in P1}
        P3 == {DictEntry(s, "Subtype", <<"/Image">>) : s \in P2}
        P4 == {DictEntry(s, "Width", <<as_ascii(width)>>) : s \in P3}
        P5 == {DictEntry(s, "Height", <<as_ascii(height)>>) : s \in P4}
        P6 == {DictEntry(s, "ColorSpace", <<MODE2COLOR_SPACE[contents.mode]>>) : s \in P5}
        P7 == {DictEntry(s, "BitsPerComponent", <<"8">>) : s \in P6}
        P8 == {DictEntry(s, "Length", <<as_ascii(ImageLength(contents))>>) : s \in P7}
        P9 == {start_dict_exit(DictEntry(s, "Filter", <<FORMAT2FILTER[contents.format]>>))
               : s \in P8}
        P10 == {start_stream_exit(_write(start_stream_enter(s), contents.bytes)) : s \in P9}
        P11 == {start_object_exit(s) : s \in P10}
    IN  The(P11)

\* The content-stream object of write_image_page; the id yielded is left in ret.
ContentObject(self, content_stream, contents_id) ==
    LET P1 == {start_dict_enter(start_object_enter(self, contents_id))}
        P2 == {start_dict_exit(DictEntry(s, "Length", <<as_ascii(Len(content_stream))>>))
               : s \in P1}
        P3 == {start_stream_exit(_write(start_stream_enter(s), content_stream)) : s \in P2}
        P4 == {start_object_exit(s) : s \in P3}
    IN  The(P4)

\* contents: the image as the decoder reports it, bytes (what contents.read() returns),
\* size, mode and format.
write_image_page(self, id, contents, contents_id, image_id, media_box, parent_id) ==
    LET width == contents.size[1]
        height == contents.size[2]
        content_stream == CONTENT_STREAM_TEMPLATE(width, height)
        box == IF media_box = <<>> THEN <<0, 0, width, height>> ELSE media_box
        P1 == {LookUp(_write_header(self), contents)}
        \* image: the state once the image-resource object is written, ret its id
        P2 == {IF Raised(s) THEN [image |-> None, w |-> s]
               ELSE The({ [image |-> i.ret, w |-> ContentObject(i, content_stream, contents_id)]
                          : i \in {ImageObject(s, contents, image_id)} })
               : s \in P1}
        P3 == {IF Raised(p.w) THEN p.w
               ELSE write_page(p.w, id, OneContents(p.w.ret), box, parent_id,
                               ResourcesFor(p.image)) : p \in P2}
    IN  The(P3)

\* ----------------------------------------------------------- finalization

\* The page-tree object; the id it was written under is left in ret.
_write_page_tree(self) ==
    LET P1 == {start_object_enter(self, self._page_tree_root_id)}
        P2 == {IF Raised(s) THEN s ELSE [s EXCEPT !._page_tree_root_id = s.ret] : s \in P1}
        P3 == {DictEntry(start_dict_enter(s), "Type", <<"/Pages">>) : s \in P2}
        P4 == {start_array_enter(start_dict_entry_enter(s, "Kids")) : s \in P3}
        P5 == {start_array_exit(ArrayOfRefs(s, s._page_ids, TRUE)) : s \in P4}
        P6 == {start_dict_entry_exit(s) : s \in P5}
        P7 == {DictEntry(s, "Count", <<as_ascii(Len(s._page_ids))>>) : s \in P6}
        P8 == {start_object_exit(start_dict_exit(s)) : s \in P7}
    IN  The(P8)

\* The catalog object; the id it was written under is left in ret.
_write_catalog(self, id, page_tree_root_id) ==
    LET P1 == {start_dict_enter(start_object_enter(self, id))}
        P2 == {DictEntry(s, "Type", <<"/Catalog">>) : s \in P1}
        P3 == {start_dict_entry_exit(
                   _write_ref(start_dict_entry_enter(s, "Pages"), page_tree_root_id))
               : s \in P2}
        P4 == {start_object_exit(start_dict_exit(s)) : s \in P3}
    IN  The(P4)

_write_footer(self) == _write(self, "%%EOF")

_write_startxref(self, xref_pos) ==
    _write_each(self, <<"startxref\n", as_ascii(xref_pos), "\n">>)

_write_trailer(self, catalog_id) ==
    The({ _write_each(s, <<"trailer\n", "<<\n", "/Size ",
                           as_ascii(Cardinality(DOMAIN s._xrefs) + 1), "\n",
                           "/Root ", as_ascii(catalog_id), " 0 R\n", ">>\n">>) : s \in {self} })

\* "{:0Nd}".format(n): the decimal digits, zero-padded on the left to N characters.
RECURSIVE ZeroPad(_, _)
ZeroPad(digits, n) == IF Len(digits) >= n THEN digits ELSE ZeroPad("0" \o digits, n)

\* "{:010d} {:05d} {} \n".format(offset, gen, "n" if in_use else "f")
XrefEntry(offset, gen, in_use) ==
    ZeroPad(as_ascii(offset), 10) \o " " \o ZeroPad(as_ascii(gen), 5) \o " "
        \o (IF in_use THEN "n" ELSE "f") \o " \n"

write_entry(self, id, offset, gen, in_use) ==
    _write_each(self, <<as_ascii(id), " 1\n", XrefEntry(offset, gen, in_use)>>)

\* sorted(ids): the i-th is the id with i - 1 smaller ids.
Sorted(S) ==
    [i \in 1..Cardinality(S) |-> CHOOSE x \in S : Cardinality({y \in S : y < x}) = i - 1]

\* A mutation of the loop over xref_items: the entries are written last id first.
RECURSIVE MutEntriesBackwards(_, _)
MutEntriesBackwards(self, ids) ==
    IF ids = <<>> THEN self
    ELSE The({ MutEntriesBackwards(
                   write_entry(s, ids[Len(ids)], s._xrefs[ids[Len(ids)]], 0, TRUE),
                   SubSeq(ids, 1, Len(ids) - 1))
               : s \in {self} })

\* for (id, offset) in xref_items: write_entry(id, offset, 0, True)
RECURSIVE WriteEntries(_, _)
WriteEntries(self, ids) ==
    IF ids = <<>> THEN self
    ELSE The({ WriteEntries(write_entry(s, Head(ids), s._xrefs[Head(ids)], 0, TRUE), Tail(ids))
               : s \in {self} })

\* The xref section; xref_pos, the value returned, is left in ret.
_write_xrefs(self) ==
    LET P1 == {[xref_pos |-> s._pos, w |-> _write(s, "xref\n")] : s \in {self}}
        P2 == {[p EXCEPT !.w = write_entry(p.w, 0, 0, 65535, FALSE)] : p \in P1}
        P3 == {[p EXCEPT !.w = WriteEntries(p.w, Sorted(DOMAIN p.w._xrefs))] : p \in P2}
        P4 == {IF Raised(p.w) THEN p.w ELSE [p.w EXCEPT !.ret = p.xref_pos] : p \in P3}
    IN  The(P4)

\* A mutation of close: the sink is closed whether or not the writer owns it.
MutCloseSinkAlways(self) ==
    The({ IF Raised(s) THEN s
          ELSE [s EXCEPT !.sink_closed = @ + 1, !.out = "None"] : s \in {self} })

\* A mutation of close: the sink is not dropped.
MutCloseKeepsOut(self) == self

\* if self.owned: self.out.close(); then self.out = None
ReleaseSink(self) ==
    The({ IF Raised(s) THEN s
          ELSE [s EXCEPT !.sink_closed = IF s.owned THEN @ + 1 ELSE @, !.out = "None"]
          : s \in {self} })

close(self) ==
    IF self.out = "None" THEN self
    ELSE LET P1 == {_write_page_tree(_write_header(self))}
             \* page_tree_root_id is what _write_page_tree returned
             P2 == {_write_catalog(s, None, s.ret) : s \in P1}
             \* catalog_id is what _write_catalog returned
             P3 == {[catalog_id |-> s.ret, w |-> _write_xrefs(s)] : s \in P2}
             \* xref_pos is what _write_xrefs returned
             P4 == {[xref_pos |-> p.w.ret, w |-> _write_trailer(p.w, p.catalog_id)] : p \in P3}
             P5 == {_write_footer(_write_startxref(p.w, p.xref_pos)) : p \in P4}
             P6 == {ReleaseSink(s) : s \in P5}
         IN  The(P6)

\* ------------------------------------------------------------ the callers

\* The writer and its sink as one value, at the start of a call.
Self ==
    [out |-> out, owned |-> owned, _id_stream |-> _id_stream, _page_ids |-> _page_ids,
     _page_tree_root_id |-> _page_tree_root_id, _pos |-> _pos, _xrefs |-> _xrefs,
     sink |-> sink, sink_closed |-> sink_closed, sink_room |-> -1,
     err |-> "none", ret |-> None]

\* The ids the caller holds from its own next_object_id() calls.
Reserved == {calls[i].ret : i \in {j \in DOMAIN calls : calls[j].op = "next_object_id"}}

\* Inputs: the encoded images a caller submits.
Gray == [mode |-> "L", format |-> "JPEG", size |-> <<2, 3>>, bytes |-> "JFIF."]
Rgb == [mode |-> "RGB", format |-> "JPEG", size |-> <<10, 4>>, bytes |-> "JFIFJFIFJFIF"]
Cmyk == [mode |-> "CMYK", format |-> "JPEG", size |-> <<2, 3>>, bytes |-> "JFIF."]
Png == [mode |-> "L", format |-> "PNG", size |-> <<2, 3>>, bytes |-> "\\x89PNG"]

\* Inputs: the keyword arguments of write_image_page other than parent_id.
ImagePageArgs ==
    { [id |-> None, contents |-> Gray, contents_id |-> None, image_id |-> None, media_box |-> <<>>],
      [id |-> None, contents |-> Rgb, contents_id |-> None, image_id |-> None,
       media_box |-> <<0, 0, 20, 8>>],
      [id |-> None, contents |-> Gray, contents_id |-> 6, image_id |-> 5, media_box |-> <<>>],
      [id |-> None, contents |-> Cmyk, contents_id |-> None, image_id |-> None, media_box |-> <<>>],
      [id |-> None, contents |-> Png, contents_id |-> None, image_id |-> None, media_box |-> <<>>] }

\* Inputs: the arguments of write_page other than parent_id.
PageArgs ==
    { [id |-> None, contents_id |-> NoContents, media_box |-> <<>>, resources |-> ""],
      [id |-> None, contents_id |-> OneContents(7), media_box |-> <<0, 0, 10, 20>>,
       resources |-> "<< >>"],
      [id |-> None, contents_id |-> ManyContents(<<7, 8>>), media_box |-> <<>>, resources |-> ""],
      [id |-> 2, contents_id |-> NoContents, media_box |-> <<>>, resources |-> ""] }

\* Inputs: parent_id is absent or an id the caller reserved.
ParentArgs == {None} \cup Reserved

\* Inputs: the id argument of start_object.
ObjectIdArgs == {None, 2}

\* What the caller's log keeps of a call's arguments: the object id and parent_id
\* given (None when absent), the object ids the caller supplied for the objects the
\* call starts, and whether the image submitted has a recognized mode and format.
NoArgs == [id |-> None, parent_id |-> None, supplied |-> {}, image_ok |-> TRUE]

\* One call of the public interface: the writer's fields after it, and its record
\* in the caller's log (what was called, how it ended, what the sink held before).
Call(op, state, args) ==
  \E r \in {state} :
    /\ out' = r.out
    /\ owned' = r.owned
    /\ _id_stream' = r._id_stream
    /\ _page_ids' = r._page_ids
    /\ _page_tree_root_id' = r._page_tree_root_id
    /\ _pos' = r._pos
    /\ _xrefs' = r._xrefs
    /\ sink' = r.sink
    /\ sink_closed' = r.sink_closed
    /\ calls' = Append(calls, [op |-> op, err |-> r.err,
                               ret |-> IF Raised(r) THEN None ELSE r.ret,
                               args |-> args,
                               mark |-> Len(sink), was_open |-> out = "sink",
                               next_id |-> _id_stream])

Init ==
    /\ out \in OutValues
    /\ owned \in BOOLEAN
    /\ _id_stream = 1
    /\ _page_ids = <<>>
    /\ _page_tree_root_id = None
    /\ _pos = 0
    /\ _xrefs = <<>>
    /\ sink = <<>>
    /\ sink_closed = 0
    /\ stack = <<>>
    /\ calls = <<>>

\* __enter__
Enter ==
    /\ Len(calls) < MaxOps
    /\ Call("enter", _write_header(Self), NoArgs)
    /\ UNCHANGED stack

\* close(), also __exit__
Close ==
    /\ Len(calls) < MaxOps
    /\ Call("close", close(Self), NoArgs)
    /\ UNCHANGED stack

NextObjectId ==
    /\ Len(calls) < MaxOps
    /\ Call("next_object_id", next_object_id(Self), NoArgs)
    /\ UNCHANGED stack

WritePage ==
    /\ Len(calls) < MaxOps
    /\ \E a \in PageArgs, parent_id \in ParentArgs :
          Call("write_page",
               write_page(Self, a.id, a.contents_id, a.media_box, parent_id, a.resources),
               [NoArgs EXCEPT !.id = a.id, !.parent_id = parent_id,
                              !.supplied = {a.id} \ {None}])
    /\ UNCHANGED stack

WriteImagePage ==
    /\ Len(calls) < MaxOps
    /\ \E a \in ImagePageArgs, parent_id \in ParentArgs :
          Call("write_image_page",
               write_image_page(Self, a.id, a.contents, a.contents_id, a.image_id,
                                a.media_box, parent_id),
               [NoArgs EXCEPT !.id = a.id, !.parent_id = parent_id,
                              !.supplied = {a.id, a.contents_id, a.image_id} \ {None},
                              !.image_ok = a.contents.mode \in DOMAIN MODE2COLOR_SPACE
                                           /\ a.contents.format \in DOMAIN FORMAT2FILTER])
    /\ UNCHANGED stack

\* Entering a with-block: the scope is open once its code up to the yield has run.
Open(op, r, kind, id) ==
    /\ Call(op, r, [NoArgs EXCEPT !.id = id, !.supplied = {id} \ {None}])
    /\ stack' = IF Raised(r) THEN stack ELSE Append(stack, [kind |-> kind, first |-> TRUE])

StartArray ==
    /\ Len(calls) < MaxOps
    /\ Open("start_array", start_array_enter(Self), "array", None)

StartDict ==
    /\ Len(calls) < MaxOps
    /\ Open("start_dict", start_dict_enter(Self), "dict", None)

StartObject ==
    /\ Len(calls) < MaxOps
    /\ \E id \in ObjectIdArgs : Open("start_object", start_object_enter(Self, id), "object", id)

StartStream ==
    /\ Len(calls) < MaxOps
    /\ Open("start_stream", start_stream_enter(Self), "stream", None)

\* The element helper an array scope yields, called inside that scope.
StartArrayElement ==
    /\ Len(calls) < MaxOps
    /\ stack # <<>>
    /\ stack[Len(stack)].kind = "array"
    /\ LET r == start_array_element_enter(Self, stack[Len(stack)].first)
       IN  /\ Call("start_array_element", r, NoArgs)
           /\ stack' = IF Raised(r)
                       THEN [stack EXCEPT ![Len(stack)].first = FALSE]
                       ELSE Append([stack EXCEPT ![Len(stack)].first = FALSE],
                                   [kind |-> "element", first |-> TRUE])

\* The entry helper a dictionary scope yields, called inside that scope.
StartDictEntry ==
    /\ Len(calls) < MaxOps
    /\ stack # <<>>
    /\ stack[Len(stack)].kind = "dict"
    /\ Open("start_dict_entry", start_dict_entry_enter(Self, "Type"), "entry", None)

\* The code after the yield of the innermost open scope.
ScopeExit(self, kind) ==
    CASE kind = "array" -> start_array_exit(self)
      [] kind = "dict" -> start_dict_exit(self)
      [] kind = "entry" -> start_dict_entry_exit(self)
      [] kind = "object" -> start_object_exit(self)
      [] kind = "stream" -> start_stream_exit(self)
      [] kind = "element" -> self

\* The body of the innermost with-block completes.
ExitScope ==
    /\ Len(calls) < MaxOps
    /\ stack # <<>>
    /\ Call("exit", ScopeExit(Self, stack[Len(stack)].kind), NoArgs)
    /\ stack' = SubSeq(stack, 1, Len(stack) - 1)

\* The body of the innermost with-block raises: the exception is thrown into the
\* generator at its yield, and the code after the yield does not run.
RaiseInScope ==
    /\ Len(calls) < MaxOps
    /\ stack # <<>>
    /\ Call("raise", Self, NoArgs)
    /\ stack' = SubSeq(stack, 1, Len(stack) - 1)

Next ==
    \/ Enter
    \/ Close
    \/ NextObjectId
    \/ WritePage
    \/ WriteImagePage
    \/ StartArray
    \/ StartDict
    \/ StartObject
    \/ StartStream
    \/ StartArrayElement
    \/ StartDictEntry
    \/ ExitScope
    \/ RaiseInScope

Spec == Init /\ [][Next]_vars

\* ------------------------------------------------- a sink that can fail

\* Inputs: the number of writes the sink still takes before out.write raises.
SinkRoom == {0, 2}

\* The writer at the start of a call during which the sink fails.
SelfOnFailingSink(room) == [Self EXCEPT !.sink_room = room]

ImagePageWriteFails ==
    /\ Len(calls) < MaxOps
    /\ \E room \in SinkRoom :
          Call("write_image_page",
               write_image_page(SelfOnFailingSink(room), None, Gray, None, None, <<>>, None),
               NoArgs)
    /\ UNCHANGED stack

CloseFails ==
    /\ Len(calls) < MaxOps
    /\ \E room \in SinkRoom : Call("close", close(SelfOnFailingSink(room)), NoArgs)
    /\ UNCHANGED stack

NextSinkFails ==
    \/ Next
    \/ ImagePageWriteFails
    \/ CloseFails

\* The writer on a sink whose write can raise.
SpecSinkFails == Init /\ [][NextSinkFails]_vars

\* ------------------------------------------------- reading the sink back

\* The i-th byte string written, "" outside the sink.
At(i) == IF i \in 1..Len(sink) THEN sink[i] ELSE ""

\* The sink position (count of bytes before) of the i-th byte string written.
Offset(i) == TotalLen(sink, 1, i - 1)

\* Where bs was written.
Idx(bs) == {i \in 1..Len(sink) : sink[i] = bs}

\* Object headers "<id> 0 obj\n": the places of their id.
ObjHeaders == {j \in 1..Len(sink) : At(j + 1) = " 0 obj\n"}

\* The objects whose dictionary opens with /Type t.
TypedObjects(t) ==
    {j \in ObjHeaders : /\ At(j + 2) = "<<\n"
                        /\ At(j + 3) = "/" /\ At(j + 4) = "Type" /\ At(j + 5) = " "
                        /\ At(j + 6) = t}

\* The value of the entry that follows the /Type entry of the object at j, if its key is key.
SecondEntry(j, key) ==
    IF At(j + 8) = "/" /\ At(j + 9) = key /\ At(j + 10) = " " THEN At(j + 11) ELSE ""

LastCall == calls[Len(calls)]

\* The close() calls that found a sink and finalized the document.
ClosedAt == {c \in DOMAIN calls : calls[c].op = "close" /\ calls[c].was_open}

Finalized == ClosedAt # {}

PageOps == {"write_page", "write_image_page"}

\* The page calls that returned, in call order.
PageCalls == Sorted({c \in DOMAIN calls : calls[c].op \in PageOps /\ calls[c].err = "none"})

\* The page objects of the sink, in the order written.
PageObjects == Sorted(TypedObjects("/Page"))

\* The least and the greatest of a non-empty set of numbers.
Least(S) == CHOOSE x \in S : \A y \in S : x <= y
Greatest(S) == CHOOSE x \in S : \A y \in S : y <= x

\* ------------------------------------------------------------------- C1

\* The xref entries "<id> 1\n<offset> <gen> n \n" of the sink: the places of " 1\n".
XrefEntries == {i \in Idx(" 1\n") : At(i - 1) # "0"}

\* C1: the offset the xref table records for id K is the sink position of the first
\* byte of the header "K 0 obj" of the object last started under K.
C1_XrefOffsetIsHeaderPosition ==
    \A i \in XrefEntries :
        LET hs == {j \in ObjHeaders : sink[j] = At(i - 1) /\ j < i}
        IN  /\ hs # {}
            /\ At(i + 1) = XrefEntry(Offset(Greatest(hs)), 0, TRUE)

\* A document whose first call, the header still pending, wrote an image page, closed.
C1_Witness ==
    /\ Finalized
    /\ calls[1].op = "write_image_page" /\ calls[1].err = "none"
    /\ Cardinality(XrefEntries) >= 5
    /\ \E i \in XrefEntries : At(i + 1) = XrefEntry(9, 0, TRUE)

\* ------------------------------------------------------------------- C2

\* The caller reserved an id first and gave it as parent_id to every page call.
ReservedParentRun ==
    /\ Finalized
    /\ calls[1].op = "next_object_id"
    /\ \E c \in DOMAIN calls : calls[c].op \in PageOps
    /\ \A c \in DOMAIN calls :
          calls[c].op \in PageOps => calls[c].args.parent_id = calls[1].ret

\* C2 (as claimed): with an id reserved before any page and given as parent_id to every
\* page call, the closed document has exactly one page-tree object, under the reserved
\* id, and no other tree-root id is allocated.
C2_ReservedIdIsTheTreeRoot ==
    ReservedParentRun =>
        /\ Cardinality(TypedObjects("/Pages")) = 1
        /\ \A t \in TypedObjects("/Pages") : sink[t] = as_ascii(calls[1].ret)
        /\ _page_tree_root_id = calls[1].ret

\* ------------------------------------------------------------------- C3

WriteOps == {"start_array", "start_dict", "start_object", "start_stream",
             "write_page", "write_image_page"}

\* The last call was a write operation on a writer without a sink.
WriteWithoutSink == calls # <<>> /\ LastCall.op \in WriteOps /\ ~LastCall.was_open

\* C3 (as claimed): a write operation on a writer that is closed or never had a sink
\* fails with the closed-writer error, and the sink receives no bytes.
C3_WriteAfterCloseFailsClosed ==
    WriteWithoutSink => (LastCall.err = "closed" /\ Len(sink) = LastCall.mark)

\* C3 (amended): such a write operation fails and the sink receives no bytes; the error
\* is the closed-writer error, except for write_image_page called after a completed
\* close() on an image of unrecognized mode or format: the lookup of the mode and format
\* comes first and fails with the unsupported-image error.
C3_WriteAfterCloseFails ==
    WriteWithoutSink =>
        /\ Len(sink) = LastCall.mark
        /\ LastCall.err =
              IF LastCall.op = "write_image_page" /\ ~LastCall.args.image_ok /\ Finalized
              THEN "unsupported" ELSE "closed"

\* After close(), a page write and an image-page write on an unrecognized image.
C3_Witness ==
    /\ WriteWithoutSink /\ Finalized
    /\ LastCall.op = "write_image_page" /\ LastCall.err = "unsupported"
    /\ \E c \in DOMAIN calls : calls[c].op = "write_page" /\ calls[c].err = "closed"
\* ------------------------------------------------------------------- C4

\* The scope a byte string opens or closes, "" if it does neither.
Opener(bs) ==
    CASE bs = " 0 obj\n" -> "object"
      [] bs = "<<\n" -> "dict"
      [] bs = "[" -> "array"
      [] bs = "stream\n" -> "stream"
      [] OTHER -> ""

Closer(bs) ==
    CASE bs = "endobj\n" -> "object"
      [] bs = ">>\n" -> "dict"
      [] bs = "]" -> "array"
      [] bs = "\nendstream\n" -> "stream"
      [] OTHER -> ""

\* Closes the innermost of the scopes left open (ops) by the closers that follow (cls).
RECURSIVE Cancel(_, _)
Cancel(ops, cls) ==
    IF ops = <<>> \/ cls = <<>> THEN [ok |-> TRUE, op |-> ops, cl |-> cls]
    ELSE IF ops[Len(ops)] = Head(cls) THEN Cancel(SubSeq(ops, 1, Len(ops) - 1), Tail(cls))
    ELSE [ok |-> FALSE, op |-> <<>>, cl |-> <<>>]

Join(L, R) ==
    The({ [ok |-> L.ok /\ R.ok /\ c.ok, cl |-> L.cl \o c.cl, op |-> c.op \o R.op]
          : c \in {Cancel(L.op, R.cl)} })

\* The nesting of sink[lo..hi]: whether every closer met closes the innermost open
\* scope, the closers without an opener (cl) and the scopes left open (op).
RECURSIVE Nesting(_, _)
Nesting(lo, hi) ==
    IF lo > hi THEN [ok |-> TRUE, op |-> <<>>, cl |-> <<>>]
    ELSE IF lo = hi
    THEN [ok |-> TRUE,
          op |-> IF Opener(sink[lo]) # "" THEN <<Opener(sink[lo])>> ELSE <<>>,
          cl |-> IF Closer(sink[lo]) # "" THEN <<Closer(sink[lo])>> ELSE <<>>]
    ELSE The({ Join(l, r) : l \in {Nesting(lo, (lo + hi) \div 2)},
                            r \in {Nesting((lo + hi) \div 2 + 1, hi)} })

Balanced == Nesting(1, Len(sink)) = [ok |-> TRUE, op |-> <<>>, cl |-> <<>>]

\* Nothing but image pages that returned, then close().
ImagePagesThenClose ==
    /\ Finalized
    /\ \A c \in DOMAIN calls :
          \/ calls[c].op = "close"
          \/ /\ calls[c].op = "write_image_page" /\ calls[c].err = "none"
             /\ \A d \in ClosedAt : c < d

\* C4: after N >= 0 image pages and close(), the tokens written are balanced and
\* properly nested (obj/endobj, <</>>, [/], stream/endstream), after the header.
C4_ImagePagesBalanced ==
    ImagePagesThenClose =>
        /\ sink[1] = "%PDF-1.7\n"
        /\ Opener(sink[1]) = "" /\ Closer(sink[1]) = ""
        /\ Balanced

\* Two image pages, then close().
C4_Witness ==
    /\ ImagePagesThenClose
    /\ Len(PageCalls) = 2
    /\ Cardinality(Idx("stream\n")) = 4

\* ------------------------------------------------------------------- C5

\* The value the trailer gives for Size.
TrailerSize == {At(t + 1) : t \in Idx("/Size ")}

\* The ids the allocator issued and the ids the caller supplied.
Allocated == (1..(_id_stream - 1)) \cup UNION {calls[c].args.supplied : c \in DOMAIN calls}

\* The ids under which an object was started.
Started == {sink[j] : j \in ObjHeaders}

\* close() has just finalized the document.
JustClosed == calls # <<>> /\ LastCall.op = "close" /\ LastCall.was_open

\* C5 (as claimed): the trailer's Size is one more than the number of distinct ids
\* allocated, issued by next_object_id() or supplied by the caller.
C5_SizeCountsAllocatedIds ==
    JustClosed => TrailerSize = {as_ascii(Cardinality(Allocated) + 1)}

\* What the code writes instead: one more than the number of distinct ids under
\* which an object was started (the in-use entries of the xref table).
SizeCountsStartedIds ==
    JustClosed =>
        /\ TrailerSize = {as_ascii(Cardinality(Started) + 1)}
        /\ Cardinality(Started) = Cardinality(XrefEntries)

\* ------------------------------------------------------------------- C6

\* The "]" that closes the Kids array of the page tree at t.
KidsEnd(t) == Least({e \in Idx("]") : e > t + 11})

\* The ids the Kids array of the page tree at t refers to, in the order written.
Kids(t) ==
    LET refs == Sorted({m \in (t + 12)..(KidsEnd(t) - 1) : At(m + 1) = " 0 R"})
    IN  [k \in 1..Len(refs) |-> sink[refs[k]]]

\* The ids of the page objects, in the order written.
PageObjectIds == [k \in 1..Len(PageObjects) |-> sink[PageObjects[k]]]

\* C6: after N >= 0 page calls and close(), the page tree's Kids lists exactly the ids
\* of the page objects emitted, in call order, and its Count is N.
C6_KidsInCallOrder ==
    Finalized =>
        /\ Len(PageObjects) = Len(PageCalls)
        /\ TypedObjects("/Pages") # {}
        /\ \A t \in TypedObjects("/Pages") :
              /\ At(t + 9) = "Kids" /\ At(t + 11) = "["
              /\ Kids(t) = PageObjectIds
              /\ At(KidsEnd(t) + 3) = "Count"
              /\ At(KidsEnd(t) + 5) = as_ascii(Len(PageCalls))

\* Two pages under different ids, then close().
C6_Witness ==
    /\ Finalized
    /\ Len(PageCalls) = 2
    /\ Len(PageObjectIds) = 2 /\ PageObjectIds[1] # PageObjectIds[2]
    /\ \E t \in TypedObjects("/Pages") : At(KidsEnd(t) + 5) = "2"

\* ------------------------------------------------------------------- C7

\* Where each finalization step starts in the sink.
FinalSteps ==
    <<TypedObjects("/Pages"), TypedObjects("/Catalog"), Idx("xref\n"),
      Idx("trailer\n"), Idx("startxref\n"), Idx("%%EOF")>>

\* The byte strings only the finalization steps write.
FinalTokens == {"/Pages", "/Catalog", "xref\n", "trailer\n", "startxref\n", "%%EOF"}

\* C7: the finalization steps are written only by close(), each exactly once, in the
\* order page tree, catalog, xref, trailer, startxref, footer; nothing is written
\* after them, by a later operation or by a second close().
C7_FinalizationOnceInOrder ==
    IF ~Finalized
    THEN \A i \in 1..Len(sink) : sink[i] \notin FinalTokens
    ELSE \A at \in {FinalSteps} :
             /\ \A k \in 1..6 : Cardinality(at[k]) = 1
             /\ \A k \in 1..5 : The(at[k]) < The(at[k + 1])
             /\ \A c \in ClosedAt : calls[c].mark < The(at[1])
             /\ {j \in ObjHeaders : j > The(at[1])} = at[2]
             /\ The(at[6]) = Len(sink)

\* A page, close(), and a second close().
C7_Witness ==
    /\ Finalized
    /\ Len(PageCalls) = 1
    /\ Cardinality({c \in DOMAIN calls : calls[c].op = "close"}) = 2

\* ------------------------------------------------------------------- C8

\* The public operations that write the header if it is pending.
HeaderOps == {"enter", "close", "write_page", "write_image_page",
              "start_array", "start_dict", "start_object", "start_stream"}

\* C8: once any such operation has run on a writer with a sink, the header is the
\* first thing in the sink and is there exactly once; nothing precedes it ever.
C8_HeaderOnceFirst ==
    /\ sink # <<>> => sink[1] = "%PDF-1.7\n"
    /\ (\E c \in DOMAIN calls : calls[c].op \in HeaderOps /\ calls[c].was_open)
          => Idx("%PDF-1.7\n") = {1}

\* close() as the very first operation, another operation after it.
C8_Witness ==
    /\ Len(calls) >= 2
    /\ calls[1].op = "close" /\ calls[1].was_open
    /\ Idx("%PDF-1.7\n") = {1}

\* ------------------------------------------------------------------- C9

\* The last call was an image page that returned.
ImagePageWritten ==
    calls # <<>> /\ LastCall.op = "write_image_page" /\ LastCall.err = "none"

\* The streams the last call wrote.
NewStreams == {i \in Idx("stream\n") : i > LastCall.mark}

StreamEnd(i) == Least({e \in Idx("\nendstream\n") : e > i})

\* The value of the Length entry of the dictionary before the stream at i.
LengthOf(i) == At(Greatest({l \in Idx("Length") : l < i}) + 2)

\* C9: in both objects write_image_page emits, the value of Length is the number of
\* bytes written between "stream\n" and "\nendstream\n".
C9_LengthIsStreamByteCount ==
    ImagePageWritten =>
        /\ Cardinality(NewStreams) = 2
        /\ \A i \in NewStreams :
              /\ \E l \in Idx("Length") : LastCall.mark < l /\ l < i
              /\ LengthOf(i) = as_ascii(TotalLen(sink, i + 1, StreamEnd(i) - 1))

\* An RGB image of 12 encoded bytes and 10 x 4 pixels was written as a page.
C9_Witness ==
    /\ ImagePageWritten
    /\ \E i \in NewStreams : LengthOf(i) = "12"
    /\ \E i \in Idx("/DeviceRGB") : i > LastCall.mark

\* ------------------------------------------------------------------ C10

\* Of the page objects po, those of the page calls pc made without a parent_id.
Orphans(po, pc) ==
    {po[k] : k \in {n \in 1..Len(pc) : n <= Len(po) /\ calls[pc[n]].args.parent_id = None}}

OrphanPages == Orphans(PageObjects, PageCalls)

\* C10: all pages written without a parent_id carry the same Parent id, the tree-root
\* id reserved on the first such call; close() emits the single page tree under that
\* id and the catalog's Pages entry refers to it.
C10_OneTreeRoot ==
    \A po \in {PageObjects}, pc \in {PageCalls} : \A orphans \in {Orphans(po, pc)} :
        /\ Len(po) = Len(pc)
        /\ \A p \in orphans : SecondEntry(p, "Parent") = as_ascii(_page_tree_root_id)
        /\ (Finalized /\ orphans # {}) =>
              /\ Cardinality(TypedObjects("/Pages")) = 1
              /\ \A t \in TypedObjects("/Pages") : sink[t] = as_ascii(_page_tree_root_id)
              /\ \A c \in TypedObjects("/Catalog") :
                    SecondEntry(c, "Pages") = as_ascii(_page_tree_root_id)
              /\ TypedObjects("/Catalog") # {}

\* Two pages without parent_id, then close().
C10_Witness ==
    /\ Finalized
    /\ Cardinality(OrphanPages) = 2
    /\ _page_tree_root_id # None
\* ------------------------------------------------------------------ C11

\* The last call was a write_page that returned.
PageWritten == calls # <<>> /\ LastCall.op = "write_page" /\ LastCall.err = "none"

\* The page objects the last call wrote.
NewPages == {p \in TypedObjects("/Page") : p > LastCall.mark}

\* C11 (as claimed): write_page returns the id of the page object it emitted, the id
\* it appended to the page list, whether contents_id is absent, one id or several.
C11_WritePageReturnsPageId ==
    PageWritten =>
        /\ Cardinality(NewPages) = 1
        /\ \A p \in NewPages : sink[p] = as_ascii(LastCall.ret)
        /\ LastCall.ret = _page_ids[Len(_page_ids)]
\* ------------------------------------------------------------------ C12

\* The id of xs with k - 1 smaller ids in xs.
Ranked(xs, k) == CHOOSE x \in xs : Cardinality({y \in xs : y < x}) = k - 1

\* The xref section runs from "xref\n" at x up to "trailer\n" at t: three byte strings
\* per entry, the free entry for id 0 and then the ids recorded, ascending.
XrefSectionListsAscending(x, t) ==
    /\ t = x + 4 + 3 * Cardinality(DOMAIN _xrefs)
    /\ At(x + 1) = "0" /\ At(x + 2) = " 1\n" /\ At(x + 3) = "0000000000 65535 f \n"
    /\ \A k \in 1..Cardinality(DOMAIN _xrefs) :
          /\ At(x + 3 * k + 1) = as_ascii(Ranked(DOMAIN _xrefs, k))
          /\ At(x + 3 * k + 2) = " 1\n"
          /\ At(x + 3 * k + 3) = XrefEntry(_xrefs[Ranked(DOMAIN _xrefs, k)], 0, TRUE)

\* C12: the xref section close() writes lists the free entry for id 0 (generation
\* 65535, flag f) and then exactly one in-use entry (generation 0, flag n) for every
\* id recorded, in ascending id order, the page tree and the catalog included.
C12_XrefSectionAscending ==
    JustClosed =>
        /\ {as_ascii(id) : id \in DOMAIN _xrefs} = Started
        /\ \A j \in TypedObjects("/Pages") \cup TypedObjects("/Catalog") :
              \E id \in DOMAIN _xrefs : sink[j] = as_ascii(id)
        /\ \A x \in Idx("xref\n"), t \in Idx("trailer\n") : XrefSectionListsAscending(x, t)
        /\ Idx("xref\n") # {} /\ Idx("trailer\n") # {}

\* Objects were started out of id order (5 and 6 before 1..4), then close().
C12_Witness ==
    /\ JustClosed
    /\ {5, 6} \subseteq DOMAIN _xrefs
    /\ Cardinality(DOMAIN _xrefs) >= 5
    /\ \E i, j \in ObjHeaders : i < j /\ sink[i] = "5" /\ sink[j] = "2"
\* ------------------------------------------------------------------ C13

\* Nothing but image pages that returned, none given an explicit id, then close().
PlainImagePagesThenClose ==
    /\ ImagePagesThenClose
    /\ \A c \in DOMAIN calls : calls[c].args.supplied = {}

\* The objects whose dictionary opens with the entry key.
ObjectsOpening(key) ==
    {j \in ObjHeaders : At(j + 2) = "<<\n" /\ At(j + 3) = "/" /\ At(j + 4) = key}

\* C13: N image pages without explicit ids and close() leave one page tree, one
\* catalog, N pages, N image resources and N content streams: 3N + 2 objects, their
\* ids pairwise distinct.
C13_ObjectCounts ==
    PlainImagePagesThenClose =>
        /\ Cardinality(TypedObjects("/Pages")) = 1
        /\ Cardinality(TypedObjects("/Catalog")) = 1
        /\ Cardinality(TypedObjects("/Page")) = Len(PageCalls)
        /\ Cardinality(TypedObjects("/XObject")) = Len(PageCalls)
        /\ Cardinality(ObjectsOpening("Length")) = Len(PageCalls)
        /\ Cardinality(ObjHeaders) = 3 * Len(PageCalls) + 2
        /\ Cardinality(Started) = 3 * Len(PageCalls) + 2

\* Two image pages without explicit ids, then close(): eight objects.
C13_Witness ==
    /\ PlainImagePagesThenClose
    /\ Len(PageCalls) = 2
    /\ Cardinality(ObjHeaders) = 8
\* ------------------------------------------------------------------ C14

\* C14 (as claimed): on an open writer the xref map holds as many entries as objects
\* were started, whether their ids came from the allocator or from the caller.
C14_EntryPerObjectStarted ==
    out = "sink" => Cardinality(DOMAIN _xrefs) = Cardinality(ObjHeaders)

\* C14 (amended): on an open writer the xref map holds one entry per distinct id under
\* which an object was started; an object started under an id already used replaces
\* that id's entry, so the entries are as many as the objects started exactly when no
\* id was used twice.
C14_EntryPerIdStarted ==
    out = "sink" =>
        \A hs \in {ObjHeaders} : \A ids \in {{sink[j] : j \in hs}} :
            /\ {as_ascii(id) : id \in DOMAIN _xrefs} = ids
            /\ Cardinality(DOMAIN _xrefs) = Cardinality(ids)
            /\ (Cardinality(DOMAIN _xrefs) = Cardinality(hs)
                  <=> \A i, j \in hs : sink[i] = sink[j] => i = j)

\* Three objects started on an open writer, two of them under the same id.
C14_Witness ==
    /\ out = "sink"
    /\ Cardinality(ObjHeaders) = 3
    /\ Cardinality(DOMAIN _xrefs) = 2
\* ------------------------------------------------------------------ C15

\* The caller's calls of next_object_id.
NextIdCalls == {c \in DOMAIN calls : calls[c].op = "next_object_id"}

\* The allocator's next value once call c is over.
NextIdAfter(c) == IF c = Len(calls) THEN _id_stream ELSE calls[c + 1].next_id

\* C15: next_object_id() returns the allocator's next value, 1 before anything was
\* allocated, and a value above every value returned before, whatever operations
\* come between; the allocator never steps back, so no value is returned twice.
C15_IdsStrictlyIncrease ==
    /\ \A c \in DOMAIN calls : 1 <= calls[c].next_id /\ calls[c].next_id <= NextIdAfter(c)
    /\ calls # <<>> => calls[1].next_id = 1
    /\ \A c \in NextIdCalls :
          /\ calls[c].err = "none"
          /\ calls[c].ret = calls[c].next_id
          /\ NextIdAfter(c) = calls[c].ret + 1
          /\ \A d \in NextIdCalls : d < c => calls[d].ret < calls[c].ret

\* next_object_id() returned 1, then a page was written, then it returned 4.
C15_Witness ==
    /\ Len(calls) = 3
    /\ calls[1].op = "next_object_id" /\ calls[1].ret = 1
    /\ calls[2].op = "write_page" /\ calls[2].err = "none"
    /\ calls[3].op = "next_object_id" /\ calls[3].ret = 4
\* ------------------------------------------------------------------ C16

\* The last call was write_image_page on an image of unrecognized mode or format.
UnrecognizedImageSubmitted ==
    calls # <<>> /\ LastCall.op = "write_image_page" /\ ~LastCall.args.image_ok

\* C16 (as claimed): write_image_page on an image whose mode or format is not
\* recognized fails with the unsupported-image error.
C16_UnrecognizedImageFailsUnsupported ==
    UnrecognizedImageSubmitted => LastCall.err = "unsupported"

\* C16 (amended): such a call fails with the unsupported-image error on an open writer
\* and on a writer closed by close(); on a writer that never had a sink the pending
\* header is written first and the call fails with the closed-writer error instead.
C16_UnrecognizedImageFails ==
    UnrecognizedImageSubmitted =>
        LastCall.err = IF LastCall.was_open \/ Finalized THEN "unsupported" ELSE "closed"

\* An unrecognized image was rejected on an open writer that had written a page.
C16_Witness ==
    /\ UnrecognizedImageSubmitted
    /\ LastCall.was_open /\ LastCall.err = "unsupported"
    /\ Len(PageCalls) = 1
\* ------------------------------------------------------------------ C17

\* C17: a completed close() closes the sink once if the writer owns it, with the
\* footer already written, and never if it does not; either way the writer has dropped
\* the sink, and later calls of close() neither write to it nor close it again.
C17_OwnedSinkClosedOnce ==
    /\ sink_closed = IF owned /\ Finalized THEN 1 ELSE 0
    /\ Finalized => (out = "None" /\ At(Len(sink)) = "%%EOF" /\ Cardinality(ClosedAt) = 1)
    /\ ~Finalized => Idx("%%EOF") = {}

\* An owned sink, closed by the first of two calls of close().
C17_Witness ==
    /\ owned /\ sink_closed = 1
    /\ Len(calls) >= 2
    /\ calls[1].op = "close" /\ LastCall.op = "close" /\ ~LastCall.was_open
\* ------------------------------------------------------------------ C18

\* The closing token of a structural scope.
ClosingToken(kind) ==
    CASE kind = "array" -> "]"
      [] kind = "dict" -> ">>\n"
      [] kind = "entry" -> "\n"
      [] kind = "object" -> "endobj\n"
      [] kind = "stream" -> "\nendstream\n"

StructuralScopes == {"array", "dict", "entry", "object", "stream"}

\* C18 (as claimed): when a structural scope of an open writer is exited, by its body
\* completing or by an error thrown in it, the scope's closing token is written.
C18_CloserWrittenOnEveryExit ==
    [][(/\ stack # <<>>
        /\ stack' = SubSeq(stack, 1, Len(stack) - 1)
        /\ stack[Len(stack)].kind \in StructuralScopes
        /\ out = "sink")
          => sink' = Append(sink, ClosingToken(stack[Len(stack)].kind))]_vars

\* What the code does: the closing token is written when the body completes.
CloserWrittenOnNormalExit ==
    [][(/\ stack # <<>>
        /\ stack' = SubSeq(stack, 1, Len(stack) - 1)
        /\ stack[Len(stack)].kind \in StructuralScopes
        /\ out = "sink"
        /\ calls'[Len(calls')].op = "exit")
          => sink' = Append(sink, ClosingToken(stack[Len(stack)].kind))]_vars
\* ------------------------------------------------------------------ C19

\* The bytes the sink has accepted.
Accepted == TotalLen(sink, 1, Len(sink))

\* C19: nothing is counted before anything is written, and after every operation,
\* failed ones included, the byte counter is the number of bytes the sink has
\* accepted; an operation only appends to the sink and advances the counter by the
\* length of what it appended.
C19_CounterIsBytesAccepted ==
    [][/\ sink = <<>> => _pos = 0
       /\ _pos' = TotalLen(sink', 1, Len(sink'))
       /\ Len(sink') >= Len(sink)
       /\ SubSeq(sink', 1, Len(sink)) = sink
       /\ _pos' = _pos + TotalLen(sink', Len(sink) + 1, Len(sink'))]_vars

\* The sink raised in the middle of an image page: some of its bytes were accepted.
C19_Witness ==
    /\ calls # <<>> /\ LastCall.op = "write_image_page" /\ LastCall.err = "io"
    /\ Len(sink) = LastCall.mark + 2
    /\ _pos = Accepted /\ _pos > 9
\* ------------------------------------------------------------------ C20

\* The writer and its sink once the step is over, at the start of the next call.
SelfAfter ==
    [out |-> out', owned |-> owned', _id_stream |-> _id_stream', _page_ids |-> _page_ids',
     _page_tree_root_id |-> _page_tree_root_id', _pos |-> _pos', _xrefs |-> _xrefs',
     sink |-> sink', sink_closed |-> sink_closed', sink_room |-> -1,
     err |-> "none", ret |-> None]

\* The step is a write_image_page call on an open writer, rejected for its image.
ImageRejected ==
    /\ out = "sink"
    /\ Len(calls') = Len(calls) + 1
    /\ calls'[Len(calls')].op = "write_image_page"
    /\ calls'[Len(calls')].err = "unsupported"

\* C20: a write_image_page call rejected for its image on an open writer allocates no
\* id, records no xref entry, appends no page and writes nothing but the header if
\* it was pending: the writer is left as it was, or, having written the header, in
\* a state from which a page, an image page and close() give what they would have
\* given without the call.
C20_RejectedImageLeavesNoTrace ==
    [][ImageRejected =>
          /\ _id_stream' = _id_stream
          /\ _xrefs' = _xrefs
          /\ _page_ids' = _page_ids
          /\ _page_tree_root_id' = _page_tree_root_id
          /\ out' = out /\ owned' = owned /\ sink_closed' = sink_closed
          /\ sink' = IF _pos = 0 THEN <<"%PDF-1.7\n">> ELSE sink
          /\ _pos' = IF _pos = 0 THEN 9 ELSE _pos
          /\ IF _pos # 0 THEN SelfAfter = Self
             ELSE /\ close(SelfAfter) = close(Self)
                  /\ write_page(SelfAfter, None, NoContents, <<>>, None, "")
                        = write_page(Self, None, NoContents, <<>>, None, "")
                  /\ write_image_page(SelfAfter, None, Gray, None, None, <<>>, None)
                        = write_image_page(Self, None, Gray, None, None, <<>>, None)]_vars

\* An image was rejected between two pages that were written.
C20_Witness ==
    /\ Len(calls) = 3
    /\ calls[1].op \in PageOps /\ calls[1].err = "none"
    /\ calls[2].op = "write_image_page" /\ calls[2].err = "unsupported" /\ calls[2].was_open
    /\ calls[3].op \in PageOps /\ calls[3].err = "none"
    /\ Len(_page_ids) = 2

====
